---- MODULE Spec2Model ----
(***************************************************************************)
(* A model of smee's potential energy evaluation: the registry of energy   *)
(* functions and the dispatch in smee/potentials/_potentials.py, and the   *)
(* non-bonded kernels of smee/potentials/nonbonded.py.                     *)
(*                                                                         *)
(* Tensors are functions over 0..n-1, so that every index of the model is  *)
(* the index the Python source uses.  Real numbers are kept exact: an      *)
(* energy is a pair <<a, b>> that stands for a / LJUnit + b * k_e /        *)
(* CoulUnit, where k_e is _COULOMB_PRE_FACTOR; the parameter and           *)
(* coordinate values the model draws from are chosen so that every square  *)
(* root and every division of the kernels is exact.  Floating point        *)
(* rounding is not modelled.                                               *)
(***************************************************************************)
EXTENDS Integers, Sequences, FiniteSets, TLC

VARIABLES registry, imported, last

vars == <<registry, imported, last>>

----------------------------------------------------------------------------
(* Tensor helpers *)

\* a 0-based tensor from a TLA+ sequence
Z(s) == [k \in 0..(Len(s) - 1) |-> s[k + 1]]

\* len(t)
Size(t) == Cardinality(DOMAIN t)

\* torch.cat / torch.vstack of two tensors along dim 0
Cat(a, b) == [k \in 0..(Size(a) + Size(b) - 1) |-> IF k < Size(a) THEN a[k] ELSE b[k - Size(a)]]

RECURSIVE SumTo(_, _)
\* t[0] + ... + t[n - 1]
SumTo(t, n) == IF n = 0 THEN 0 ELSE SumTo(t, n - 1) + t[n - 1]

\* t.sum(-1) of a 1-D tensor
Sum(t) == SumTo(t, Size(t))

\* the exact square root of a perfect square
ISqrt(n) == CHOOSE r \in 0..n : r * r = n

RECURSIVE Product(_, _)
\* every tensor t of length n with t[k] \in choices[k]
Product(choices, n) == IF n = 0 THEN {Z(<<>>)} ELSE {Cat(p, Z(<<v>>)) : p \in Product(choices, n - 1), v \in choices[n - 1]}

----------------------------------------------------------------------------
(* smee/potentials/nonbonded.py *)

COULOMB_POTENTIAL == "coul"

LJ_POTENTIAL == "4*epsilon*((sigma/r)**12-(sigma/r)**6)"

\* energies of the LJ kernels are counted in units of 1 / LJUnit
LJUnit == 64 * 64

\* energies of the Coulomb kernels are counted in units of k_e / CoulUnit
CoulUnit == 1 * 2

lorentz_berthelot(epsilon_a, epsilon_b, sigma_a, sigma_b) == [epsilon |-> ISqrt(epsilon_a * epsilon_b), sigma |-> (sigma_a + sigma_b) \div 2]

RECURSIVE TriuFrom(_, _, _)
\* the rows <<i, j>>, i < j < n, from <<i, j>> on, in row-major order
TriuFrom(n, i, j) == IF i >= n - 1 THEN <<>> ELSE IF j >= n THEN TriuFrom(n, i + 1, i + 2) ELSE <<Z(<<i, j>>)>> \o TriuFrom(n, i, j + 1)

RECURSIVE TriuColumnsFrom(_, _, _)
\* the rows <<i, j>>, i < j < n, from <<i, j>> on, column after column
TriuColumnsFrom(n, i, j) == IF j >= n THEN <<>> ELSE IF i >= j THEN TriuColumnsFrom(n, 0, j + 1) ELSE <<Z(<<i, j>>)>> \o TriuColumnsFrom(n, i + 1, j)

\* the pairs i < j in column-major order
triu_indices_by_column(n) == Z(TriuColumnsFrom(n, 0, 1))

\* torch.triu_indices(n, n, 1).T
triu_indices(n) == Z(TriuFrom(n, 0, 1))

\* a row left as it is given
SortRowNot(e) == e

\* one row of tensor.sort(dim=1)
SortRow(e) == IF e[0] <= e[1] THEN e ELSE Z(<<e[1], e[0]>>)

\* smee.utils.ones_like(n, ...)
ones_like(n) == [k \in 0..(n - 1) |-> 1]

\* self[idxs] = vals: every tensor the assignment can leave behind.  Where idxs
\* repeats an index torch leaves the outcome undefined (index_put_ without
\* accumulate), so any of the values written to that index may remain.
IndexPut(self, idxs, vals) == Product([k \in DOMAIN self |-> IF \E e \in DOMAIN idxs : idxs[e] = k THEN {vals[e] : e \in {d \in DOMAIN idxs : idxs[d] = k}} ELSE {self[k]}], Size(self))

\* the index of the pair after the one meant
exclusions_1d_next(i, j, n_particles) == ((i * (2 * n_particles - i - 1)) \div 2) + j - i

\* ((i * (2 * n_particles - i - 1)) / 2 + j - i - 1).long()
exclusions_1d(i, j, n_particles) == ((i * (2 * n_particles - i - 1)) \div 2) + j - i - 1

\* (directions * directions).sum(dim=-1) for one pair of one conformer
DistanceSqr(coords, pair) == Sum([d \in 0..2 |-> (coords[pair[1]][d] - coords[pair[0]][d]) * (coords[pair[1]][d] - coords[pair[0]][d])])

\* smee.utils.to_upper_tri_idx(i, j, n): the index of the pair i < j in the
\* flattened upper triangle
to_upper_tri_idx(i, j, n) == ((i * (2 * n - i - 1)) \div 2) + j - i - 1

\* the outcomes of compute_pairwise for a batched conformer
compute_pairwise(conformer, exclusions, exclusion_scales) ==
  LET n_particles == Size(conformer[0])
      pair_idxs == triu_indices(n_particles)
      ones == ones_like(Size(pair_idxs))
      sorted == [e \in DOMAIN exclusions |-> SortRow(exclusions[e])]
      idxs == [e \in DOMAIN exclusions |-> exclusions_1d(sorted[e][0], sorted[e][1], n_particles)]
      scales == IF Size(exclusions) > 0 THEN IndexPut(ones, idxs, exclusion_scales) ELSE {ones}
      distances_sqr == [b \in DOMAIN conformer |-> [k \in DOMAIN pair_idxs |-> DistanceSqr(conformer[b], pair_idxs[k])]]
  IN {[pair_idxs |-> pair_idxs, distances_sqr |-> distances_sqr, pair_scales |-> ps] : ps \in scales}

\* 4.0 * epsilon * (x * (x - 1.0)) with x = sigma**6 / distances_sqr**3, in units of 1 / LJUnit
LJTerm(parameters, pair, distance_sqr) ==
  LET lb == lorentz_berthelot(parameters[pair[0]][0], parameters[pair[1]][0], parameters[pair[0]][1], parameters[pair[1]][1])
      sigma6 == lb.sigma ^ 6
      d6 == distance_sqr ^ 3
  IN 4 * lb.epsilon * sigma6 * (sigma6 - d6) * (LJUnit \div (d6 * d6))

\* parameters[i, 0] * parameters[j, 0] * rsqrt(distances_sqr), in units of k_e / CoulUnit
CoulombTerm(parameters, pair, distance_sqr) == parameters[pair[0]][0] * parameters[pair[1]][0] * (CoulUnit \div ISqrt(distance_sqr))

\* the energies compute_lj_energy can return for a batched conformer
LJEnergies(conformer, parameters, exclusions, exclusion_scales) == {[b \in DOMAIN conformer |-> <<Sum([k \in DOMAIN pw.pair_idxs |-> pw.pair_scales[k] * LJTerm(parameters, pw.pair_idxs[k], pw.distances_sqr[b][k])]), 0>>] : pw \in compute_pairwise(conformer, exclusions, exclusion_scales)}

\* the energies compute_coulomb_energy can return for a batched conformer
CoulombEnergies(conformer, parameters, exclusions, exclusion_scales) == {[b \in DOMAIN conformer |-> <<0, Sum([k \in DOMAIN pw.pair_idxs |-> pw.pair_scales[k] * CoulombTerm(parameters, pw.pair_idxs[k], pw.distances_sqr[b][k])])>>] : pw \in compute_pairwise(conformer, exclusions, exclusion_scales)}

\* a tensor as a kernel sees it: ndim 2 is a single conformer, ndim 3 a batch
unsqueeze(conformer) == [ndim |-> 3, data |-> Z(<<conformer.data>>)]

\* compute_lj_energy: the results it can produce (an energy per conformer of a
\* batch, a single energy for an unbatched conformer)
compute_lj_energy(conformer, parameters, exclusions, exclusion_scales) ==
  LET is_batched == conformer.ndim = 3
      batch == IF is_batched THEN conformer ELSE unsqueeze(conformer)
  IN IF \E p \in DOMAIN parameters : Size(parameters[p]) < 2 THEN {[status |-> "IndexError"]}
     ELSE {[status |-> "ok", energy |-> IF is_batched THEN e ELSE e[0]] : e \in LJEnergies(batch.data, parameters, exclusions, exclusion_scales)}

\* compute_coulomb_energy: the results it can produce
compute_coulomb_energy(conformer, parameters, exclusions, exclusion_scales) ==
  LET is_batched == conformer.ndim = 3
      batch == IF is_batched THEN conformer ELSE unsqueeze(conformer)
  IN {[status |-> "ok", energy |-> IF is_batched THEN e ELSE e[0]] : e \in CoulombEnergies(batch.data, parameters, exclusions, exclusion_scales)}

----------------------------------------------------------------------------
(* smee/potentials/_potentials.py *)

\* the energy functions nonbonded.py registers, by name
EnergyFns == {"compute_lj_energy", "compute_coulomb_energy"}

\* the positional parameters of an energy function (inspect.signature)
Signature(func) == <<"conformer", "parameters", "exclusions", "exclusion_scales">>

\* a decorator that stores func whether or not the pair is registered
potential_energy_fn_overwrite(reg, handler_type, energy_expression, func) == [status |-> "ok", registry |-> (<<handler_type, energy_expression>> :> func) @@ reg]

\* potential_energy_fn(handler_type, energy_expression)(func) on registry reg
potential_energy_fn(reg, handler_type, energy_expression, func) ==
  IF <<handler_type, energy_expression>> \in DOMAIN reg
  THEN [status |-> "KeyError", registry |-> reg]
  ELSE [status |-> "ok", registry |-> (<<handler_type, energy_expression>> :> func) @@ reg]

\* importlib.import_module("smee.potentials.nonbonded"): the first import runs
\* the module, whose two decorators register the kernels one after the other;
\* a module that raised is not kept, and is run again by the next import
import_nonbonded(reg, imp) ==
  IF imp THEN [status |-> "ok", registry |-> reg, imported |-> TRUE]
  ELSE LET lj == potential_energy_fn(reg, "vdW", LJ_POTENTIAL, "compute_lj_energy")
           coul == potential_energy_fn(lj.registry, "Electrostatics", COULOMB_POTENTIAL, "compute_coulomb_energy")
       IN IF lj.status # "ok" THEN [status |-> "KeyError", registry |-> reg, imported |-> FALSE]
          ELSE IF coul.status # "ok" THEN [status |-> "KeyError", registry |-> lj.registry, imported |-> FALSE]
          ELSE [status |-> "ok", registry |-> coul.registry, imported |-> TRUE]

\* assignment_matrix @ parameters
MatMul(a, b) == [r \in DOMAIN a |-> [c \in DOMAIN b[0] |-> Sum([t \in DOMAIN b |-> a[r][t] * b[t][c]])]]

\* attributes[idxs]
Gather(t, idxs) == [e \in DOMAIN idxs |-> t[idxs[e]]]

\* a lookup that settles for a function registered for the same handler type
lookup_by_type(reg, key) ==
  IF key \in DOMAIN reg THEN [status |-> "ok", energy_fn |-> reg[key]]
  ELSE IF \E k \in DOMAIN reg : k[1] = key[1] THEN [status |-> "ok", energy_fn |-> reg[CHOOSE k \in DOMAIN reg : k[1] = key[1]]]
  ELSE [status |-> "KeyError"]

\* _POTENTIAL_ENERGY_FUNCTIONS[(potential.type, potential.fn)]
lookup(reg, key) == IF key \in DOMAIN reg THEN [status |-> "ok", energy_fn |-> reg[key]] ELSE [status |-> "KeyError"]

\* a call that binds whatever positional arguments it is given
CallEnergyFnUnchecked(func, args) ==
  IF Len(args) = 3 THEN compute_coulomb_energy(args[1], args[3], Z(<<>>), Z(<<>>))
  ELSE IF func = "compute_lj_energy" THEN compute_lj_energy(args[1], args[2], args[3], args[4])
  ELSE compute_coulomb_energy(args[1], args[2], args[3], args[4])

\* energy_fn(*args): the results of the call, a TypeError when the positional
\* arguments are not the ones the function takes
CallEnergyFn(func, args) ==
  IF Len(args) # Len(Signature(func)) THEN {[status |-> "TypeError"]}
  ELSE IF func = "compute_lj_energy" THEN compute_lj_energy(args[1], args[2], args[3], args[4])
  ELSE compute_coulomb_energy(args[1], args[2], args[3], args[4])

\* what a call that raised returns: nothing
NoEnergy == <<>>

\* a call that raised
Raised(status, reg, imp, called) == [status |-> status, energy |-> NoEnergy, called |-> called, registry |-> reg, imported |-> imp]

\* compute_energy_potential: every outcome of the call, with the registry it leaves
compute_energy_potential(reg, imp, parameters, conformer, potential) ==
  LET batch == IF conformer.ndim = 2 THEN unsqueeze(conformer) ELSE conformer
      mod == import_nonbonded(reg, imp)
      key == <<potential.type, potential.fn>>
  IN IF Size(parameters.assignment_matrix[0]) # Size(potential.parameters) THEN {Raised("RuntimeError", reg, imp, <<>>)}
     ELSE IF mod.status # "ok" THEN {Raised(mod.status, mod.registry, mod.imported, <<>>)}
     ELSE IF lookup(mod.registry, key).status # "ok" THEN {Raised("KeyError", mod.registry, mod.imported, <<>>)}
     ELSE LET energy_fn == lookup(mod.registry, key).energy_fn
              parameter_values == MatMul(parameters.assignment_matrix, potential.parameters)
              args == IF parameters.variant = "NonbondedParameterMap"
                      THEN <<batch, parameter_values, parameters.exclusions, Gather(potential.attributes, parameters.exclusion_scale_idxs)>>
                      ELSE <<batch, parameters.particle_idxs, parameter_values>>
          IN IF parameters.variant \notin {"NonbondedParameterMap", "ValenceParameterMap"} THEN {Raised("NotImplementedError", mod.registry, mod.imported, <<>>)}
             ELSE {IF r.status # "ok" THEN Raised(r.status, mod.registry, mod.imported, <<<<key, energy_fn>>>>)
                   ELSE [status |-> "ok", energy |-> r.energy, called |-> <<<<key, energy_fn>>>>, registry |-> mod.registry, imported |-> mod.imported] : r \in CallEnergyFn(energy_fn, args)}

\* an accumulation that adds the first conformer's energy to every entry
AddEnergyOfFirst(energy, other) == [b \in DOMAIN energy |-> <<energy[b][1] + other[0][1], energy[b][2] + other[0][2]>>]

\* energy += other, one entry per conformer
AddEnergy(energy, other) == [b \in DOMAIN energy |-> <<energy[b][1] + other[b][1], energy[b][2] + other[b][2]>>]

RECURSIVE ComputeEnergyFrom(_, _, _, _, _)
\* the loop of compute_energy from potential k on; st is the state so far
ComputeEnergyFrom(st, parameters, conformer, potentials, k) ==
  IF k = Size(potentials) THEN {st}
  ELSE IF potentials[k].type \notin DOMAIN parameters THEN {Raised("KeyError", st.registry, st.imported, st.called)}
  ELSE UNION {IF r.status # "ok" THEN {Raised(r.status, r.registry, r.imported, st.called \o r.called)}
              ELSE ComputeEnergyFrom([status |-> "ok", energy |-> AddEnergy(st.energy, r.energy), called |-> st.called \o r.called, registry |-> r.registry, imported |-> r.imported], parameters, conformer, potentials, k + 1)
              : r \in compute_energy_potential(st.registry, st.imported, parameters[potentials[k].type], conformer, potentials[k])}

\* compute_energy: every outcome of the call
compute_energy(reg, imp, parameters, conformer, force_field) ==
  LET batch == IF conformer.ndim = 2 THEN unsqueeze(conformer) ELSE conformer
      zeros == [b \in DOMAIN batch.data |-> <<0, 0>>]
  IN ComputeEnergyFrom([status |-> "ok", energy |-> zeros, called |-> <<>>, registry |-> reg, imported |-> imp], parameters, batch, force_field.potentials, 0)

----------------------------------------------------------------------------
(* The inputs the model draws from *)

\* the largest batch of conformers
MaxConfs == 2

\* the most particles of a conformer
MaxParticles == 3

\* the most exclusions of a parameter map
MaxExclusions == 2

\* coordinates [A]: points of the x axis, so that every distance is an integer
Positions == {Z(<<x, 0, 0>>) : x \in {0, 1, 2}}

\* the conformers of n particles, no two at the same point
Conformers(n) == {c \in [0..(n - 1) -> Positions] : \A p, q \in 0..(n - 1) : p # q => c[p] # c[q]}

\* conformer tensors over the conformers cs: one conformer, or a batch of up to maxB
ConformerTensors(cs, maxB) == {[ndim |-> 2, data |-> c] : c \in cs} \cup {[ndim |-> 3, data |-> b] : b \in UNION {[0..(k - 1) -> cs] : k \in 1..maxB}}

\* the parameter table of a vdW potential: rows of (epsilon, sigma)
VdwParameters == Z(<<Z(<<1, 2>>), Z(<<4, 0>>)>>)

\* the parameter table of an Electrostatics potential: rows of (charge)
ChargeParameters == Z(<<Z(<<1>>), Z(<<-2>>)>>)

\* the attributes of a potential: the scale factors its exclusions refer to
Attributes == Z(<<0, 2, 1>>)

HandlerTypes == {"vdW", "Electrostatics"}

EnergyExpressions == {LJ_POTENTIAL, COULOMB_POTENTIAL}

\* a TensorPotential
Potential(type, fn) == [type |-> type, fn |-> fn, parameters |-> IF type = "vdW" THEN VdwParameters ELSE ChargeParameters, attributes |-> Attributes]

Potentials == {Potential(t, f) : t \in HandlerTypes, f \in EnergyExpressions}

\* the assignment matrices of n particles: each particle has one parameter type
AssignmentMatrices(n) == {[p \in 0..(n - 1) |-> [t \in 0..1 |-> IF t = f[p] THEN 1 ELSE 0]] : f \in [0..(n - 1) -> 0..1]}

\* the pairs i < j of n particles
UpperPairs(n) == {Z(<<q[1], q[2]>>) : q \in {r \in (0..(n - 1)) \X (0..(n - 1)) : r[1] < r[2]}}

\* the entry lists the pair p, in either index order
Lists(entry, p) == {entry[0], entry[1]} = {p[0], p[1]}

\* the smaller and the larger index of a pair
Lower(pair) == IF pair[0] <= pair[1] THEN pair[0] ELSE pair[1]

Upper(pair) == IF pair[0] <= pair[1] THEN pair[1] ELSE pair[0]

\* exclusion lists of up to m entries over the pairs ps, each pair listed once,
\* with the attribute column of each entry
ExclusionLists(ps, m) == {x \in UNION {[0..(k - 1) -> ps \X DOMAIN Attributes] : k \in 0..m} : \A d, e \in DOMAIN x : d # e => ~Lists(x[d][1], x[e][1])}

NonbondedParameterMap(a, x) == [variant |-> "NonbondedParameterMap", assignment_matrix |-> a, exclusions |-> [e \in DOMAIN x |-> x[e][1]], exclusion_scale_idxs |-> [e \in DOMAIN x |-> x[e][2]]]

ValenceParameterMap(a) == [variant |-> "ValenceParameterMap", assignment_matrix |-> a, particle_idxs |-> Z(<<Z(<<0, 1>>)>>)]

\* a parameter map that is neither of the two
OtherParameterMap(a) == [variant |-> "OtherParameterMap", assignment_matrix |-> a]

----------------------------------------------------------------------------
(* The registry and the dispatch: a caller that registers energy functions,   *)
(* imports the non-bonded module and evaluates energies, one call at a time.   *)
(* last holds the call and its outcome until the caller has taken it.          *)

\* the conformers the dispatch is exercised with
DispatchConformers == ConformerTensors({c \in Conformers(2) : c[0][0] = 0}, 1)

\* the parameter maps the dispatch is exercised with
DispatchMaps == {NonbondedParameterMap(a, x) : a \in {m \in AssignmentMatrices(2) : m[0][0] = 1}, x \in ExclusionLists({Z(<<0, 1>>)}, 1)} \cup UNION {{ValenceParameterMap(a), OtherParameterMap(a)} : a \in {m \in AssignmentMatrices(2) : m[0][0] = 1 /\ m[1][1] = 1}}

\* the applied parameters of a topology: a map for some of the handler types
ParameterDicts(maps) == UNION {[ts -> maps] : ts \in SUBSET HandlerTypes}

\* force fields of up to m potentials
ForceFields(m) == {[potentials |-> ps] : ps \in UNION {[0..(k - 1) -> Potentials] : k \in 0..m}}

Idle == [op |-> "none"]

Init ==
  /\ registry = <<>>
  /\ imported = FALSE
  /\ last = Idle

\* @potential_energy_fn(handler_type, energy_expression) on func
Register(handler_type, energy_expression, func) ==
  LET r == potential_energy_fn(registry, handler_type, energy_expression, func)
  IN /\ last = Idle
     /\ registry' = r.registry
     /\ last' = [op |-> "potential_energy_fn", key |-> <<handler_type, energy_expression>>, func |-> func, status |-> r.status]
     /\ UNCHANGED imported

\* import smee.potentials.nonbonded
ImportNonbonded ==
  LET r == import_nonbonded(registry, imported)
  IN /\ last = Idle
     /\ registry' = r.registry
     /\ imported' = r.imported
     /\ last' = [op |-> "import", status |-> r.status]

\* compute_energy_potential(parameters, conformer, potential)
ComputeEnergyPotential(parameters, conformer, potential) ==
  /\ last = Idle
  /\ \E r \in compute_energy_potential(registry, imported, parameters, conformer, potential) :
       /\ registry' = r.registry
       /\ imported' = r.imported
       /\ last' = [op |-> "compute_energy_potential", parameters |-> parameters, conformer |-> conformer, potential |-> potential, status |-> r.status, energy |-> r.energy, called |-> r.called]

\* compute_energy(parameters, conformer, force_field)
ComputeEnergy(parameters, conformer, force_field) ==
  /\ last = Idle
  /\ \E r \in compute_energy(registry, imported, parameters, conformer, force_field) :
       /\ registry' = r.registry
       /\ imported' = r.imported
       /\ last' = [op |-> "compute_energy", parameters |-> parameters, conformer |-> conformer, force_field |-> force_field, status |-> r.status, energy |-> r.energy, called |-> r.called]

\* the caller takes the outcome of the call
Return ==
  /\ last # Idle
  /\ last' = Idle
  /\ UNCHANGED <<registry, imported>>

\* the (handler type, energy expression) pairs the caller registers under
RegistryKeys == {<<"vdW", LJ_POTENTIAL>>, <<"Electrostatics", COULOMB_POTENTIAL>>, <<"vdW", COULOMB_POTENTIAL>>}

\* the parameter maps compute_energy is exercised with in the dispatch
DispatchDictMaps == {m \in DispatchMaps : m.assignment_matrix[1][1] = 1 /\ (m.variant = "NonbondedParameterMap" => \A e \in DOMAIN m.exclusion_scale_idxs : m.exclusion_scale_idxs[e] = 0)}

\* the conformers compute_energy is exercised with in the dispatch
DispatchDictConformers == {c \in DispatchConformers : IF c.ndim = 2 THEN c.data[1][0] = 1 ELSE c.data[0][1][0] = 2}

Next ==
  \/ (last = Idle /\ \E k \in RegistryKeys, f \in EnergyFns : Register(k[1], k[2], f))
  \/ (last = Idle /\ ImportNonbonded)
  \/ (last = Idle /\ \E p \in DispatchMaps, c \in DispatchConformers, pot \in Potentials : ComputeEnergyPotential(p, c, pot))
  \/ (last = Idle /\ \E p \in ParameterDicts(DispatchDictMaps), c \in DispatchDictConformers, ff \in ForceFields(2) : ComputeEnergy(p, c, ff))
  \/ Return

Spec == Init /\ [][Next]_vars

----------------------------------------------------------------------------
(* Properties of the registry and the dispatch *)

\* the (type, fn) pair of a potential
KeyOf(potential) == <<potential.type, potential.fn>>

\* C1: a registration of a pair that is already present raises KeyError and
\* leaves the registry unchanged, a registration of an absent pair adds exactly
\* that entry, and no step ever changes or removes the function of a pair that
\* is registered: each pair keeps the first function registered for it.
C1_RegisterOnce ==
  [][/\ \A k \in DOMAIN registry : k \in DOMAIN registry' /\ registry'[k] = registry[k]
     /\ last'.op = "potential_energy_fn" =>
          IF last'.key \in DOMAIN registry
          THEN last'.status = "KeyError" /\ registry' = registry
          ELSE /\ last'.status = "ok"
               /\ DOMAIN registry' = DOMAIN registry \cup {last'.key}
               /\ registry'[last'.key] = last'.func]_vars

\* a pair was registered again, with another function, and was refused
C1_Witness == last.op = "potential_energy_fn" /\ last.status = "KeyError" /\ registry[last.key] # last.func

\* C2: compute_energy_potential on a potential whose pair is not registered
\* raises and returns no energy without calling any kernel; every kernel that
\* any evaluation calls is the one registered under the pair of the potential it
\* is called for; and compute_energy on a force field that holds a potential
\* with an unregistered pair raises and returns no energy.
C2_UnregisteredPairFails ==
  /\ (last.op = "compute_energy_potential" /\ KeyOf(last.potential) \notin DOMAIN registry) =>
       last.status # "ok" /\ last.energy = NoEnergy /\ last.called = <<>>
  /\ last.op = "compute_energy_potential" =>
       \A i \in 1..Len(last.called) : last.called[i] = <<KeyOf(last.potential), registry[KeyOf(last.potential)]>>
  /\ last.op = "compute_energy" =>
       /\ \A i \in 1..Len(last.called) : last.called[i] = <<KeyOf(last.force_field.potentials[i - 1]), registry[KeyOf(last.force_field.potentials[i - 1])]>>
       /\ (\E k \in DOMAIN last.force_field.potentials : KeyOf(last.force_field.potentials[k]) \notin DOMAIN registry) =>
            last.status # "ok" /\ last.energy = NoEnergy

\* compute_energy evaluated its first potential, found the pair of the second
\* unregistered while other pairs were registered, and raised KeyError
C2_Witness ==
  /\ last.op = "compute_energy"
  /\ last.status = "KeyError"
  /\ Len(last.called) = 1
  /\ Size(last.force_field.potentials) = 2
  /\ last.force_field.potentials[1].type \in DOMAIN last.parameters
  /\ KeyOf(last.force_field.potentials[1]) \notin DOMAIN registry
  /\ \E k \in DOMAIN registry : k[1] = last.force_field.potentials[1].type

\* C3: once the kernel of the potential is selected (the non-bonded module is
\* imported and the pair is registered), compute_energy_potential raises
\* NotImplementedError without calling a kernel for a parameter map that is
\* neither a NonbondedParameterMap nor a ValenceParameterMap, and raises and
\* returns no energy for a ValenceParameterMap given to the LJ or the Coulomb
\* kernel.
C3_WrongVariantFails ==
  (last.op = "compute_energy_potential" /\ imported /\ KeyOf(last.potential) \in DOMAIN registry) =>
    /\ last.parameters.variant \notin {"NonbondedParameterMap", "ValenceParameterMap"} =>
         last.status = "NotImplementedError" /\ last.called = <<>> /\ last.energy = NoEnergy
    /\ (last.parameters.variant = "ValenceParameterMap" /\ registry[KeyOf(last.potential)] \in EnergyFns) =>
         last.status # "ok" /\ last.energy = NoEnergy

\* a ValenceParameterMap reached the LJ kernel, which raised TypeError
C3_Witness ==
  /\ last.op = "compute_energy_potential"
  /\ last.parameters.variant = "ValenceParameterMap"
  /\ last.called = <<<<KeyOf(last.potential), "compute_lj_energy">>>>
  /\ last.status = "TypeError"

----------------------------------------------------------------------------
(* The energy evaluation: the non-bonded module is imported, and the caller   *)
(* evaluates force fields and calls the two kernels directly.                  *)

\* the pairs i # j of n particles, in either index order
DirectedPairs(n) == {Z(<<q[1], q[2]>>) : q \in {r \in (0..(n - 1)) \X (0..(n - 1)) : r[1] # r[2]}}

\* the pair p comes before the pair q
PairBefore(p, q) == Lower(p) < Lower(q) \/ (Lower(p) = Lower(q) /\ Upper(p) < Upper(q))

\* the exclusion lists of ExclusionLists(ps, m) that list their pairs in order
OrderedExclusionLists(ps, m) == {x \in ExclusionLists(ps, m) : \A d, e \in DOMAIN x : d < e => PairBefore(x[d][1], x[e][1])}

\* the conformers of n particles up to reflection of the x axis
EnergyConformers(n) == {c \in Conformers(n) : c[0][0] < c[1][0]}

\* the two potentials the non-bonded module has kernels for
LJPotential == Potential("vdW", LJ_POTENTIAL)

CoulombPotential == Potential("Electrostatics", COULOMB_POTENTIAL)

\* force fields of up to m of the potentials ps
ForceFieldsOf(ps, m) == {[potentials |-> f] : f \in UNION {[0..(k - 1) -> ps] : k \in 0..m}}

\* the applied parameters of a topology of n particles with the exclusions x
EnergyDict(a, x) == [t \in HandlerTypes |-> NonbondedParameterMap(a, x)]

EnergyInit ==
  /\ registry = import_nonbonded(<<>>, FALSE).registry
  /\ imported = TRUE
  /\ last = Idle

\* compute_lj_energy(conformer, parameters, exclusions, exclusion_scales)
LJKernel(conformer, parameters, exclusions, exclusion_scales) ==
  \E r \in compute_lj_energy(conformer, parameters, exclusions, exclusion_scales) :
    /\ last' = [op |-> "compute_lj_energy", conformer |-> conformer, parameters |-> parameters, exclusions |-> exclusions, exclusion_scales |-> exclusion_scales, status |-> r.status, energy |-> r.energy]
    /\ UNCHANGED <<registry, imported>>

\* compute_coulomb_energy(conformer, parameters, exclusions, exclusion_scales)
CoulombKernel(conformer, parameters, exclusions, exclusion_scales) ==
  \E r \in compute_coulomb_energy(conformer, parameters, exclusions, exclusion_scales) :
    /\ last' = [op |-> "compute_coulomb_energy", conformer |-> conformer, parameters |-> parameters, exclusions |-> exclusions, exclusion_scales |-> exclusion_scales, status |-> r.status, energy |-> r.energy]
    /\ UNCHANGED <<registry, imported>>

EnergyNext ==
  \/ (last = Idle /\ \E n \in 2..MaxParticles : \E a \in AssignmentMatrices(n), x \in OrderedExclusionLists(UpperPairs(n), 1), c \in ConformerTensors(EnergyConformers(n), MaxConfs), ff \in ForceFieldsOf({LJPotential, CoulombPotential}, 2) :
        ComputeEnergy(EnergyDict(a, x), c, ff))
  \/ (last = Idle /\ \E n \in 2..MaxParticles : \E a \in AssignmentMatrices(n), x \in OrderedExclusionLists(DirectedPairs(n), MaxExclusions), c \in ConformerTensors(EnergyConformers(n), 1) :
        LJKernel(c, MatMul(a, VdwParameters), [e \in DOMAIN x |-> x[e][1]], [e \in DOMAIN x |-> Attributes[x[e][2]]]))
  \/ (last = Idle /\ \E n \in 2..MaxParticles : \E a \in AssignmentMatrices(n), x \in OrderedExclusionLists(DirectedPairs(n), MaxExclusions), c \in ConformerTensors(EnergyConformers(n), 1) :
        CoulombKernel(c, MatMul(a, ChargeParameters), [e \in DOMAIN x |-> x[e][1]], [e \in DOMAIN x |-> Attributes[x[e][2]]]))
  \/ Return

SpecEnergy == EnergyInit /\ [][EnergyNext]_vars

----------------------------------------------------------------------------
(* Properties of the energy evaluation *)

RECURSIVE SumOver(_, _)
\* the sum of f over the set S
SumOver(S, f) == IF S = {} THEN 0 ELSE LET x == CHOOSE y \in S : TRUE IN f[x] + SumOver(S \ {x}, f)

\* the energy the kernel registered for the potential returns for one
\* conformer evaluated on its own
KernelEnergyOf(potential, parameters, coords) ==
  (CHOOSE r \in CallEnergyFn(registry[KeyOf(potential)], <<[ndim |-> 2, data |-> coords], MatMul(parameters.assignment_matrix, potential.parameters), parameters.exclusions, Gather(potential.attributes, parameters.exclusion_scale_idxs)>>) : TRUE).energy

RECURSIVE PotentialSum(_, _, _, _)
\* the sum of KernelEnergyOf over the first k potentials
PotentialSum(potentials, parameters, coords, k) ==
  IF k = 0 THEN <<0, 0>>
  ELSE LET rest == PotentialSum(potentials, parameters, coords, k - 1)
           e == KernelEnergyOf(potentials[k - 1], parameters[potentials[k - 1].type], coords)
       IN <<rest[1] + e[1], rest[2] + e[2]>>

\* the conformers of a conformer tensor
ConformersOf(conformer) == IF conformer.ndim = 2 THEN Z(<<conformer.data>>) ELSE conformer.data

\* C4: compute_energy returns one energy per conformer of the batch, a single
\* conformer counting as a batch of one, and the energy of conformer k is the
\* sum over the potentials of the force field, in order, of what the registered
\* kernel returns for conformer k alone with the parameter map of the potential:
\* it depends on no other conformer of the batch.
C4_EnergyPerConformer ==
  (last.op = "compute_energy" /\ last.status = "ok") =>
    /\ DOMAIN last.energy = DOMAIN ConformersOf(last.conformer)
    /\ \A k \in DOMAIN last.energy :
         last.energy[k] = PotentialSum(last.force_field.potentials, last.parameters, ConformersOf(last.conformer)[k], Size(last.force_field.potentials))

\* a batch of two different conformers was evaluated with the LJ and the
\* Coulomb potential, and the two conformers got different energies
C4_Witness ==
  /\ last.op = "compute_energy"
  /\ last.status = "ok"
  /\ last.conformer.ndim = 3
  /\ Size(last.conformer.data) = 2
  /\ Size(last.force_field.potentials) = 2
  /\ last.force_field.potentials[0] # last.force_field.potentials[1]
  /\ last.energy[0] # last.energy[1]
  /\ last.energy[0][1] # 0
  /\ last.energy[0][2] # 0

\* the scale of a pair i < j: that of the exclusion that lists it, in either
\* index order, and 1 when none does
ScaleOfPair(pair, exclusions, exclusion_scales) ==
  IF \E e \in DOMAIN exclusions : Lists(exclusions[e], pair)
  THEN exclusion_scales[CHOOSE e \in DOMAIN exclusions : Lists(exclusions[e], pair)]
  ELSE 1

\* the sum over all pairs i < j of the pair's scale times its unscaled LJ term
ScaledLJSum(coords, parameters, exclusions, exclusion_scales) ==
  SumOver(UpperPairs(Size(coords)), [p \in UpperPairs(Size(coords)) |-> ScaleOfPair(p, exclusions, exclusion_scales) * LJTerm(parameters, p, DistanceSqr(coords, p))])

\* the sum over all pairs i < j of the pair's scale times its unscaled Coulomb term
ScaledCoulombSum(coords, parameters, exclusions, exclusion_scales) ==
  SumOver(UpperPairs(Size(coords)), [p \in UpperPairs(Size(coords)) |-> ScaleOfPair(p, exclusions, exclusion_scales) * CoulombTerm(parameters, p, DistanceSqr(coords, p))])

\* the energies of a kernel call, one per conformer
EnergiesOf(call) == IF call.conformer.ndim = 2 THEN Z(<<call.energy>>) ELSE call.energy

\* C9: the energy the no-cutoff LJ and Coulomb kernels return for a conformer is
\* the sum over all pairs i < j of the pair's scale times the pair's unscaled
\* term, where the scale of a pair is that of the exclusion listing it and 1
\* otherwise; so the energy is linear in each scale, a scale of 0 removes the
\* pair, a scale of 1 leaves it as if not excluded, and no other pair is scaled.
C9_ScaleLinear ==
  /\ (last.op = "compute_lj_energy" /\ last.status = "ok") =>
       \A b \in DOMAIN EnergiesOf(last) :
         EnergiesOf(last)[b] = <<ScaledLJSum(ConformersOf(last.conformer)[b], last.parameters, last.exclusions, last.exclusion_scales), 0>>
  /\ (last.op = "compute_coulomb_energy" /\ last.status = "ok") =>
       \A b \in DOMAIN EnergiesOf(last) :
         EnergiesOf(last)[b] = <<0, ScaledCoulombSum(ConformersOf(last.conformer)[b], last.parameters, last.exclusions, last.exclusion_scales)>>

\* the LJ kernel was called with one pair excluded with scale 0 and another
\* with scale 2, both with a non-zero unscaled term
C9_Witness ==
  /\ last.op = "compute_lj_energy"
  /\ last.status = "ok"
  /\ Size(last.exclusions) = 2
  /\ last.exclusion_scales[0] = 0
  /\ last.exclusion_scales[1] = 2
  /\ \A e \in DOMAIN last.exclusions : LJTerm(last.parameters, last.exclusions[e], DistanceSqr(ConformersOf(last.conformer)[0], last.exclusions[e])) # 0
  /\ EnergiesOf(last)[0][1] # 0

----------------------------------------------------------------------------
(* Broadcasting the parameters and the exclusions of a system *)

\* the most topologies of a system
MaxTopologies == 2

\* the most copies of a topology
MaxCopies == 2

\* TensorTopology.n_particles: the atoms and the virtual sites
n_particles(topology) == topology.n_atoms + topology.n_v_sites

RECURSIVE ParticlesBefore(_, _)
\* the particles of the copies of the first t topologies of the system
ParticlesBefore(system, t) == IF t = 0 THEN 0 ELSE ParticlesBefore(system, t - 1) + system.n_copies[t - 1] * n_particles(system.topologies[t - 1])

\* TensorSystem.n_particles
SystemParticles(system) == ParticlesBefore(system, Size(system.topologies))

\* torch.broadcast_to(rows[None, :, :], (n_copies, n_rows, n_cols)).reshape(-1, n_cols):
\* the rows must number n_rows, or be a single row, which is then repeated
broadcast_to(rows, n_copies, n_rows) ==
  IF Size(rows) = n_rows THEN [status |-> "ok", rows |-> [k \in 0..(n_copies * n_rows - 1) |-> rows[k % n_rows]]]
  ELSE IF Size(rows) = 1 THEN [status |-> "ok", rows |-> [k \in 0..(n_copies * n_rows - 1) |-> rows[0]]]
  ELSE [status |-> "RuntimeError"]

RECURSIVE BroadcastParametersTo(_, _, _)
\* the list comprehension of broadcast_parameters over the first t topologies, stacked
BroadcastParametersTo(system, potential, t) ==
  IF t = 0 THEN [status |-> "ok", rows |-> Z(<<>>)]
  ELSE LET before == BroadcastParametersTo(system, potential, t - 1)
           topology == system.topologies[t - 1]
           own == broadcast_to(MatMul(topology.parameters[potential.type].assignment_matrix, potential.parameters), system.n_copies[t - 1], topology.n_atoms)
       IN IF before.status # "ok" THEN before
          ELSE IF own.status # "ok" THEN own
          ELSE [status |-> "ok", rows |-> Cat(before.rows, own.rows)]

\* broadcast_parameters(system, potential)
broadcast_parameters(system, potential) == BroadcastParametersTo(system, potential, Size(system.topologies))

\* an offset that forgets the topologies before this one
exclusion_offset_local(idx_offset, copy, topology) == copy * n_particles(topology)

\* idx_offset + torch.arange(n_copies) * topology.n_particles, for one copy
exclusion_offset(idx_offset, copy, topology) == idx_offset + copy * n_particles(topology)

\* the exclusions of one topology for all its copies: copy after copy
TopologyExclusions(idx_offset, topology, n_copies, potential) ==
  LET map == topology.parameters[potential.type]
      n == Size(map.exclusions)
      scales == Gather(potential.attributes, map.exclusion_scale_idxs)
  IN [idxs |-> [k \in 0..(n_copies * n - 1) |-> [d \in 0..1 |-> exclusion_offset(idx_offset, k \div n, topology) + map.exclusions[k % n][d]]],
      scales |-> [k \in 0..(n_copies * n - 1) |-> scales[k % n]]]

RECURSIVE BroadcastExclusionsTo(_, _, _)
\* the loop of broadcast_exclusions over the first t topologies
BroadcastExclusionsTo(system, potential, t) ==
  IF t = 0 THEN [idx_offset |-> 0, idxs |-> Z(<<>>), scales |-> Z(<<>>)]
  ELSE LET before == BroadcastExclusionsTo(system, potential, t - 1)
           topology == system.topologies[t - 1]
           own == TopologyExclusions(before.idx_offset, topology, system.n_copies[t - 1], potential)
       IN [idx_offset |-> before.idx_offset + system.n_copies[t - 1] * n_particles(topology), idxs |-> Cat(before.idxs, own.idxs), scales |-> Cat(before.scales, own.scales)]

\* broadcast_exclusions(system, potential)
broadcast_exclusions(system, potential) == BroadcastExclusionsTo(system, potential, Size(system.topologies))

\* the assignment matrix that gives particle p the parameter type (p + first) mod 2
AlternatingMatrix(n, first) == [p \in 0..(n - 1) |-> [t \in 0..1 |-> IF t = (p + first) % 2 THEN 1 ELSE 0]]

\* a TensorTopology with the same non-bonded map for both handler types
Topology(atoms, v_sites, first, x) == [n_atoms |-> atoms, n_v_sites |-> v_sites, parameters |-> [t \in HandlerTypes |-> NonbondedParameterMap(AlternatingMatrix(atoms + v_sites, first), x)]]

\* the exclusion lists of the topologies: none, one pair, two pairs, and one
\* pair listed twice, in both index orders and with different scales
TopologyExclusionLists == Z(<<Z(<<>>), Z(<<<<Z(<<0, 1>>), 1>>>>), Z(<<<<Z(<<0, 1>>), 0>>, <<Z(<<0, 2>>), 2>>>>), Z(<<<<Z(<<0, 1>>), 0>>, <<Z(<<1, 0>>), 1>>>>)>>)

\* topologies of one or two atoms, with or without a virtual site, whose
\* exclusions are pairs of their own particles
Topologies == {Topology(1, 0, 0, TopologyExclusionLists[0]), Topology(2, 0, 0, TopologyExclusionLists[1]), Topology(2, 0, 1, TopologyExclusionLists[3]), Topology(1, 1, 0, TopologyExclusionLists[1]), Topology(1, 1, 1, TopologyExclusionLists[0]), Topology(2, 1, 0, TopologyExclusionLists[2]), Topology(2, 1, 1, TopologyExclusionLists[3])}

\* systems of up to MaxTopologies topologies, each in up to MaxCopies copies
Systems == UNION {{[topologies |-> [t \in 0..(k - 1) |-> f[t][1]], n_copies |-> [t \in 0..(k - 1) |-> f[t][2]]] : f \in [0..(k - 1) -> Topologies \X (1..MaxCopies)]} : k \in 1..MaxTopologies}

BroadcastInit ==
  /\ registry = <<>>
  /\ imported = FALSE
  /\ last = Idle

\* broadcast_parameters(system, potential)
BroadcastParameters(system, potential) ==
  LET r == broadcast_parameters(system, potential)
  IN /\ last' = [op |-> "broadcast_parameters", system |-> system, potential |-> potential, status |-> r.status, parameters |-> IF r.status = "ok" THEN r.rows ELSE NoEnergy]
     /\ UNCHANGED <<registry, imported>>

\* broadcast_exclusions(system, potential)
BroadcastExclusions(system, potential) ==
  LET r == broadcast_exclusions(system, potential)
  IN /\ last' = [op |-> "broadcast_exclusions", system |-> system, potential |-> potential, status |-> "ok", idxs |-> r.idxs, scales |-> r.scales]
     /\ UNCHANGED <<registry, imported>>

BroadcastNext ==
  \/ (last = Idle /\ \E system \in Systems, potential \in {LJPotential, CoulombPotential} : BroadcastParameters(system, potential))
  \/ (last = Idle /\ \E system \in Systems, potential \in {LJPotential, CoulombPotential} : BroadcastExclusions(system, potential))
  \/ Return

SpecBroadcast == BroadcastInit /\ [][BroadcastNext]_vars

----------------------------------------------------------------------------
(* Properties of the broadcasts *)

\* the non-bonded map of topology t of the last call's system
MapOf(t) == last.system.topologies[t].parameters[last.potential.type]

RECURSIVE ExclusionsBefore(_, _, _)
\* the exclusions of the copies of the first t topologies of the system
ExclusionsBefore(system, type, t) == IF t = 0 THEN 0 ELSE ExclusionsBefore(system, type, t - 1) + system.n_copies[t - 1] * Size(system.topologies[t - 1].parameters[type].exclusions)

\* C5: broadcast_parameters returns one row per particle of the system, in
\* topology order, then copy order, then particle order: the row of particle p
\* of copy c of topology t is row p of the topology's assignment matrix times
\* the parameter table of the potential.
C5_BroadcastParameters ==
  last.op = "broadcast_parameters" =>
    /\ last.status = "ok"
    /\ Size(last.parameters) = SystemParticles(last.system)
    /\ \A t \in DOMAIN last.system.topologies : \A c \in 0..(last.system.n_copies[t] - 1) : \A q \in 0..(n_particles(last.system.topologies[t]) - 1) :
         last.parameters[ParticlesBefore(last.system, t) + c * n_particles(last.system.topologies[t]) + q] = MatMul(MapOf(t).assignment_matrix, last.potential.parameters)[q]

\* the exclusions of the last call hold, for exclusion e of copy c of topology
\* t, the local pair moved by offset(t, c), with the scale of the exclusion
ExclusionsMovedBy(offset(_, _)) ==
  /\ Size(last.idxs) = ExclusionsBefore(last.system, last.potential.type, Size(last.system.topologies))
  /\ Size(last.scales) = Size(last.idxs)
  /\ \A t \in DOMAIN last.system.topologies : \A c \in 0..(last.system.n_copies[t] - 1) : \A e \in DOMAIN MapOf(t).exclusions :
       LET k == ExclusionsBefore(last.system, last.potential.type, t) + c * Size(MapOf(t).exclusions) + e
       IN /\ last.idxs[k][0] = MapOf(t).exclusions[e][0] + offset(t, c)
          /\ last.idxs[k][1] = MapOf(t).exclusions[e][1] + offset(t, c)
          /\ last.scales[k] = last.potential.attributes[MapOf(t).exclusion_scale_idxs[e]]

\* the offset of copy c of topology t: the copy's place among the topology's copies
CopyOffset(t, c) == c * n_particles(last.system.topologies[t])

\* the offset of copy c of topology t in the full system: the particles of all
\* copies of the topologies before t, then the copy's place
SystemOffset(t, c) == ParticlesBefore(last.system, t) + c * n_particles(last.system.topologies[t])

\* C6 as stated: each local exclusion pair (i, j) of a topology becomes, for
\* every copy, the pair (i + offset, j + offset) with offset = copy_index *
\* topology.n_particles, with the scale attributes[exclusion_scale_idx] of the
\* local exclusion; n_copies * (number of local exclusions) entries per topology.
C6_OffsetByCopyOnly == last.op = "broadcast_exclusions" => ExclusionsMovedBy(CopyOffset)

\* C6, amended: the offset is the number of particles of all copies of the
\* topologies before this one, plus copy_index * topology.n_particles.
C6_OffsetInSystem == last.op = "broadcast_exclusions" => ExclusionsMovedBy(SystemOffset)

\* the exclusions of a system of two topologies were broadcast, the second
\* topology in two copies with exclusions of its own
C6_Witness ==
  /\ last.op = "broadcast_exclusions"
  /\ Size(last.system.topologies) = 2
  /\ last.system.n_copies[1] = 2
  /\ Size(MapOf(1).exclusions) = 2
  /\ Size(last.idxs) >= 4

----------------------------------------------------------------------------
(* The pairs and the per-pair scales of the no-cutoff path *)

\* the most particles whose pairs are enumerated
MaxPairParticles == 6

\* _compute_pair_scales(system, potential): every vector it can return, with
\* the broadcast exclusions it was built from
compute_pair_scales(system, potential) ==
  LET n == SystemParticles(system)
      n_pairs == (n * (n - 1)) \div 2
      bx == broadcast_exclusions(system, potential)
      sorted == [e \in DOMAIN bx.idxs |-> SortRow(bx.idxs[e])]
      pair_idxs == [e \in DOMAIN bx.idxs |-> to_upper_tri_idx(sorted[e][0], sorted[e][1], n)]
      scales == IF Size(bx.idxs) > 0 THEN IndexPut(ones_like(n_pairs), pair_idxs, bx.scales) ELSE {ones_like(n_pairs)}
  IN {[n_particles |-> n, exclusions |-> bx.idxs, exclusion_scales |-> bx.scales, pair_scales |-> ps] : ps \in scales}

\* a batch of one conformer of n particles along the x axis
LineConformer(n) == Z(<<[q \in 0..(n - 1) |-> Z(<<q, 0, 0>>)]>>)

\* exclusion lists of up to m entries over the pairs of n particles, in either
\* index order; a pair may be listed more than once
PairwiseExclusionLists(n, m) == UNION {[0..(k - 1) -> DirectedPairs(n) \X DOMAIN Attributes] : k \in 0..m}

\* the systems whose pair scales are built
PairScaleSystems == {system \in Systems : SystemParticles(system) <= MaxPairParticles}

\* compute_pairwise(conformer, exclusions, exclusion_scales)
ComputePairwise(conformer, exclusions, exclusion_scales) ==
  \E r \in compute_pairwise(conformer, exclusions, exclusion_scales) :
    /\ last' = [op |-> "compute_pairwise", n_particles |-> Size(conformer[0]), exclusions |-> exclusions, exclusion_scales |-> exclusion_scales, pair_idxs |-> r.pair_idxs, distances_sqr |-> r.distances_sqr, pair_scales |-> r.pair_scales]
    /\ UNCHANGED <<registry, imported>>

\* _compute_pair_scales(system, potential)
ComputePairScales(system, potential) ==
  \E r \in compute_pair_scales(system, potential) :
    /\ last' = [op |-> "_compute_pair_scales", n_particles |-> r.n_particles, exclusions |-> r.exclusions, exclusion_scales |-> r.exclusion_scales, pair_scales |-> r.pair_scales]
    /\ UNCHANGED <<registry, imported>>

PairwiseNext ==
  \/ (last = Idle /\ \E n \in 2..MaxPairParticles : ComputePairwise(LineConformer(n), Z(<<>>), Z(<<>>)))
  \/ (last = Idle /\ \E n \in 2..MaxParticles : \E x \in PairwiseExclusionLists(n, MaxExclusions) :
        ComputePairwise(LineConformer(n), [e \in DOMAIN x |-> x[e][1]], [e \in DOMAIN x |-> Attributes[x[e][2]]]))
  \/ (last = Idle /\ \E system \in PairScaleSystems : ComputePairScales(system, LJPotential))
  \/ Return

SpecPairwise == BroadcastInit /\ [][PairwiseNext]_vars

----------------------------------------------------------------------------
(* Properties of the pairs and the per-pair scales *)

\* the canonical index of the pair i < j of n particles
CanonicalIdx(i, j, n) == ((i * (2 * n - i - 1)) \div 2) + j - i - 1

\* C7: for n >= 2 particles compute_pairwise enumerates exactly n (n - 1) / 2
\* pairs, each with i < j and none repeated, the pair at position k being the
\* one of canonical index k; so the canonical index is a bijection from the
\* pairs i < j onto 0 .. n (n - 1) / 2 - 1.
C7_PairEnumeration ==
  last.op = "compute_pairwise" =>
    LET n == last.n_particles
        pairs == last.pair_idxs
    IN /\ Size(pairs) = (n * (n - 1)) \div 2
       /\ DOMAIN pairs = 0..(((n * (n - 1)) \div 2) - 1)
       /\ \A k \in DOMAIN pairs : 0 <= pairs[k][0] /\ pairs[k][0] < pairs[k][1] /\ pairs[k][1] < n
       /\ \A k \in DOMAIN pairs : CanonicalIdx(pairs[k][0], pairs[k][1], n) = k
       /\ \A k, l \in DOMAIN pairs : k # l => pairs[k] # pairs[l]
       /\ \A p \in UpperPairs(n) : CanonicalIdx(p[0], p[1], n) \in DOMAIN pairs /\ pairs[CanonicalIdx(p[0], p[1], n)] = p
       /\ \A p, q \in UpperPairs(n) : p # q => CanonicalIdx(p[0], p[1], n) # CanonicalIdx(q[0], q[1], n)

\* the pairs of the largest number of particles were enumerated
C7_Witness == last.op = "compute_pairwise" /\ last.n_particles = MaxPairParticles /\ Size(last.pair_idxs) >= 15

\* the entries of the last call's exclusion list that list the pair p, in
\* either index order
EntriesOf(p) == {e \in DOMAIN last.exclusions : Lists(last.exclusions[e], p)}

\* the largest element of a non-empty set of numbers
Max(S) == CHOOSE x \in S : \A y \in S : y <= x

\* the dense scale vector of the last call has one entry per pair, 1 for every
\* pair no exclusion lists, and for a listed pair one of the scales allowed(p)
ScalesAre(allowed(_)) ==
  LET n == last.n_particles
  IN /\ Size(last.pair_scales) = (n * (n - 1)) \div 2
     /\ \A p \in UpperPairs(n) :
          LET k == CanonicalIdx(p[0], p[1], n)
          IN IF EntriesOf(p) = {} THEN last.pair_scales[k] = 1 ELSE last.pair_scales[k] \in allowed(p)

\* the scale of the last entry listed for p
LastListed(p) == {last.exclusion_scales[Max(EntriesOf(p))]}

\* the scales of all entries listed for p
AnyListed(p) == {last.exclusion_scales[e] : e \in EntriesOf(p)}

\* C8 as stated: the vector of compute_pairwise and _compute_pair_scales has
\* n (n - 1) / 2 entries, 1 for a pair that no exclusion lists, and for a listed
\* pair, in either index order, the scale of the last entry listed for it.
C8_LastWriteWins == last.op \in {"compute_pairwise", "_compute_pair_scales"} => ScalesAre(LastListed)

\* C8, amended: for a listed pair the entry is the scale of one of the entries
\* listed for it; which one, when they differ, is not determined.
C8_SomeWriteWins == last.op \in {"compute_pairwise", "_compute_pair_scales"} => ScalesAre(AnyListed)

\* a pair was listed twice, in the two index orders and with different scales,
\* another pair was listed once, and a third pair not at all
C8_Witness ==
  /\ last.op \in {"compute_pairwise", "_compute_pair_scales"}
  /\ \E p \in UpperPairs(last.n_particles) : \E d, e \in EntriesOf(p) : last.exclusions[d] # last.exclusions[e] /\ last.exclusion_scales[d] # last.exclusion_scales[e]
  /\ \E p \in UpperPairs(last.n_particles) : EntriesOf(p) = {}
  /\ \E p \in UpperPairs(last.n_particles) : Cardinality(EntriesOf(p)) = 1

----------------------------------------------------------------------------
(* The switching function of the periodic LJ kernel.  Distances are whole     *)
(* numbers of some unit of length, and a value of the switching function is   *)
(* a fraction num / den.                                                       *)

\* the largest cutoff and the largest switch width attribute
MaxCutoff == 5

\* the largest distance of a pair
MaxDistance == 7

\* 1.0 - 6.0 * x**5 + 15.0 * x**4 - 10.0 * x**3 for x = d / w, times w**5
SwitchPolynomial(d, w) == w ^ 5 - 6 * d ^ 5 + 15 * d ^ 4 * w - 10 * d ^ 3 * w ^ 2

\* a switching function that is not set to 0 beyond the cutoff
switch_fn_unclipped(distance, cutoff, switch_width) ==
  LET w == cutoff - switch_width
  IN [num |-> IF distance < switch_width THEN w ^ 5 ELSE SwitchPolynomial(distance - switch_width, w), den |-> w ^ 5]

\* switch_fn of _compute_lj_energy_periodic for one distance; switch_width is
\* the switch distance, cutoff - potential.attributes[switch_width_idx]
switch_fn(distance, cutoff, switch_width) ==
  LET w == cutoff - switch_width
      x_switch == [num |-> distance - switch_width, den |-> w]
      polynomial == SwitchPolynomial(x_switch.num, x_switch.den)
      below == IF distance < switch_width THEN w ^ 5 ELSE polynomial
  IN [num |-> IF distance > cutoff THEN 0 ELSE below, den |-> w ^ 5]

\* the switching function of the pairs at the given distances, for a potential
\* with the attributes cutoff and switch_width
SwitchFunction(distances, cutoff, width) ==
  /\ last' = [op |-> "switch_fn", distances |-> distances, cutoff |-> cutoff, switch_width |-> cutoff - width, switch_fn |-> [e \in DOMAIN distances |-> switch_fn(distances[e], cutoff, cutoff - width)]]
  /\ UNCHANGED <<registry, imported>>

SwitchNext ==
  \/ (last = Idle /\ \E cutoff \in 1..MaxCutoff, width \in 1..MaxCutoff, distances \in [0..1 -> 0..MaxDistance] : SwitchFunction(distances, cutoff, width))
  \/ Return

SpecSwitch == BroadcastInit /\ [][SwitchNext]_vars

\* C10: with r_s = cutoff - switch_width and r_c = cutoff, the switching factor
\* is exactly 1 for r <= r_s, exactly 0 for r >= r_c,
\* 1 - 6 x^5 + 15 x^4 - 10 x^3 with x = (r - r_s) / (r_c - r_s) in between, stays
\* inside [0, 1], and does not increase with r.
C10_SwitchingFunction ==
  last.op = "switch_fn" =>
    LET r_s == last.switch_width
        r_c == last.cutoff
        S == last.switch_fn
    IN /\ \A e \in DOMAIN S :
            LET r == last.distances[e]
            IN /\ S[e].den > 0
               /\ r <= r_s => S[e].num = S[e].den
               /\ r >= r_c => S[e].num = 0
               /\ (r_s < r /\ r < r_c) =>
                    S[e].num * (r_c - r_s) ^ 5 = S[e].den * ((r_c - r_s) ^ 5 - 6 * (r - r_s) ^ 5 + 15 * (r - r_s) ^ 4 * (r_c - r_s) - 10 * (r - r_s) ^ 3 * (r_c - r_s) ^ 2)
               /\ 0 <= S[e].num /\ S[e].num <= S[e].den
       /\ \A d, e \in DOMAIN S : last.distances[d] <= last.distances[e] => S[d].num * S[e].den >= S[e].num * S[d].den

\* the factor was evaluated at two distances strictly inside the switching
\* region, and fell strictly between them
C10_Witness ==
  /\ last.op = "switch_fn"
  /\ last.switch_width < last.distances[0]
  /\ last.distances[0] < last.distances[1]
  /\ last.distances[1] < last.cutoff
  /\ last.switch_fn[1].num > 0
  /\ last.switch_fn[0].num > last.switch_fn[1].num
  /\ last.switch_fn[0].num < last.switch_fn[0].den

----------------------------------------------------------------------------
(* The dispersion correction of the periodic LJ kernel.  The closed form of   *)
(* _compute_dispersion_integral holds a logarithm, so a value of it is kept   *)
(* as the arguments it is evaluated at.  The correction is kept as its parts:  *)
(* 8 pi n_particles^2 (terms[1] / cutoff9 - terms[2] / cutoff3 + terms[3])     *)
(* / n_interactions / volume.                                                  *)

\* None, and a value that is not None
None == <<>>

Some(v) == <<v>>

\* the value of an argument that is not None
Item(t) == t[1]

\* x.abs()
Abs(x) == IF x < 0 THEN 0 - x ELSE x

\* _compute_dispersion_integral(r, rs, rc, sigma)
dispersion_integral(r, rs, rc, sigma) == [r |-> r, rs |-> rs, rc |-> rc, sigma |-> sigma]

\* _compute_dispersion_term: the outcomes of the call.  With a switch distance
\* and no cutoff the assert fails; where asserts are compiled out, the
\* integral subtracts a tensor from None instead.
compute_dispersion_term(count, epsilon, sigma, cutoff, switch_width) ==
  LET sigma6 == [k \in DOMAIN sigma |-> sigma[k] ^ 6]
      moments == <<Sum([k \in DOMAIN sigma |-> count[k] * epsilon[k] * sigma6[k] * sigma6[k]]), Sum([k \in DOMAIN sigma |-> count[k] * epsilon[k] * sigma6[k]])>>
  IN IF switch_width = None THEN {[status |-> "ok", terms |-> moments]}
     ELSE IF cutoff = None THEN {[status |-> "AssertionError"], [status |-> "TypeError"]}
     ELSE {[status |-> "ok", terms |-> Append(moments, [k \in DOMAIN sigma |-> [weight |-> count[k] * epsilon[k], upper |-> dispersion_integral(Item(cutoff), Item(switch_width), Item(cutoff), sigma[k]), lower |-> dispersion_integral(Item(switch_width), Item(switch_width), Item(cutoff), sigma[k])]])]}

RECURSIVE CountsTo(_, _, _)
\* n_by_type[key] after the first t topologies of the system
CountsTo(system, key, t) ==
  IF t = 0 THEN 0
  ELSE LET a == system.topologies[t - 1].parameters["vdW"].assignment_matrix
       IN CountsTo(system, key, t - 1) + Sum([p \in DOMAIN a |-> Abs(a[p][key])]) * system.n_copies[t - 1]

\* counts * (counts - 1.0) / 2.0
n_ii_interactions_distinct(counts) == [t \in DOMAIN counts |-> (counts[t] * (counts[t] - 1)) \div 2]

\* (counts * (counts + 1.0)) / 2.0
n_ii_interactions(counts) == [t \in DOMAIN counts |-> (counts[t] * (counts[t] + 1)) \div 2]

\* terms += other
AddTerms(terms, other) == IF Len(terms) = 2 THEN <<terms[1] + other[1], terms[2] + other[2]>> ELSE <<terms[1] + other[1], terms[2] + other[2], Cat(terms[3], other[3])>>

\* _compute_dispersion_correction(system, potential, cutoff, switch_width, volume):
\* the outcomes of the call
compute_dispersion_correction(system, potential, cutoff, switch_width, volume) ==
  LET counts == [key \in DOMAIN potential.parameters |-> CountsTo(system, key, Size(system.topologies))]
      n_ii == n_ii_interactions(counts)
      eps_ii == [t \in DOMAIN counts |-> potential.parameters[t][0]]
      sig_ii == [t \in DOMAIN counts |-> potential.parameters[t][1]]
      idx == triu_indices(Size(counts))
      n_ij == [k \in DOMAIN idx |-> counts[idx[k][0]] * counts[idx[k][1]]]
      lb == [k \in DOMAIN idx |-> lorentz_berthelot(eps_ii[idx[k][0]], eps_ii[idx[k][1]], sig_ii[idx[k][0]], sig_ii[idx[k][1]])]
      n == SystemParticles(system)
      n_interactions == (n * (n + 1)) \div 2
  IN UNION {IF ii.status # "ok" THEN {[status |-> ii.status]}
            ELSE UNION {IF ij.status # "ok" THEN {[status |-> ij.status]}
                        ELSE IF cutoff = None THEN {[status |-> "TypeError"]}
                        ELSE IF Len(ii.terms) < 3 THEN {[status |-> "IndexError"]}
                        ELSE {[status |-> "ok", counts |-> counts, n_ii_interactions |-> n_ii, n_ij_interactions |-> n_ij, n_particles |-> n, n_interactions |-> n_interactions,
                               terms |-> AddTerms(ii.terms, ij.terms), cutoff9 |-> 9 * Item(cutoff) ^ 9, cutoff3 |-> 3 * Item(cutoff) ^ 3, volume |-> volume]}
                        : ij \in compute_dispersion_term(n_ij, [k \in DOMAIN idx |-> lb[k].epsilon], [k \in DOMAIN idx |-> lb[k].sigma], cutoff, switch_width)}
            : ii \in compute_dispersion_term(n_ii, eps_ii, sig_ii, cutoff, switch_width)}

----------------------------------------------------------------------------
(* The periodic LJ kernel.  The box is large enough for every neighbour of a  *)
(* particle to be its own image; the energy is kept as its parts: the sum     *)
(* over the neighbour pairs, whole + num / den in units of 1 / LJUnit, and    *)
(* the dispersion correction.                                                 *)

\* the volume of the box: a cube of side 10
BoxVolume == 10 * 10 * 10

\* the names of the attributes of a potential with a cutoff and, where
\* switch_width is not None, a switch width
AttributeCols(switch_width) == Z(<<"scale_12", "scale_13", "scale_14", "cutoff">> \o (IF switch_width = None THEN <<>> ELSE <<"switch_width">>))

\* a TensorPotential of a periodic system
PeriodicPotential(type, fn, cutoff, switch_width) ==
  [type |-> type, fn |-> fn, parameters |-> IF type = "vdW" THEN VdwParameters ELSE ChargeParameters,
   attribute_cols |-> AttributeCols(switch_width), attributes |-> Cat(Attributes, Z(<<cutoff>> \o switch_width))]

\* attribute_cols.index(name)
index(attribute_cols, name) == CHOOSE k \in DOMAIN attribute_cols : attribute_cols[k] = name

\* _compute_pairwise(conformer, box_vectors, cutoff): the pairs i < j within the
\* cutoff, as the neighbour list returns them, with their distances
compute_pairwise_cutoff(conformer, cutoff) ==
  LET within == SelectSeq(TriuFrom(Size(conformer), 0, 1), LAMBDA pair : DistanceSqr(conformer, pair) <= cutoff * cutoff)
  IN [pairs |-> Z(within), distances |-> [k \in 0..(Len(within) - 1) |-> ISqrt(DistanceSqr(conformer, within[k + 1]))]]

\* (switch_fn * pair_scales * 4.0 * epsilon * (x * (x - 1.0))).sum(-1), the pairs
\* with a switch factor of 1 summed apart from the others
PairSum(switch, pair_scales, lj) ==
  [whole |-> Sum([k \in DOMAIN lj |-> IF switch[k].num = switch[k].den THEN pair_scales[k] * lj[k] ELSE 0]),
   num |-> Sum([k \in DOMAIN lj |-> IF switch[k].num = switch[k].den THEN 0 ELSE switch[k].num * pair_scales[k] * lj[k]]),
   den |-> IF \E k \in DOMAIN lj : switch[k].num # switch[k].den THEN switch[CHOOSE k \in DOMAIN lj : switch[k].num # switch[k].den].den ELSE 1]

\* the arguments of the call of _compute_dispersion_correction as the kernel
\* binds them: (system, potential, switch_width, cutoff, volume) against the
\* parameters (system, potential, cutoff, switch_width, volume)
DispersionArguments(switch_width, cutoff) == [cutoff |-> switch_width, switch_width |-> cutoff]

\* _compute_lj_energy_periodic(system, conformer, box_vectors, potential): the
\* outcomes of the call
compute_lj_energy_periodic(system, conformer, volume, potential) ==
  LET parameters == broadcast_parameters(system, potential)
      cutoff == potential.attributes[index(potential.attribute_cols, "cutoff")]
      nb == compute_pairwise_cutoff(conformer, cutoff)
      use_switch_fn == \E k \in DOMAIN potential.attribute_cols : potential.attribute_cols[k] = "switch_width"
      switch_width == IF use_switch_fn THEN Some(cutoff - potential.attributes[index(potential.attribute_cols, "switch_width")]) ELSE None
      switch == [k \in DOMAIN nb.pairs |-> IF use_switch_fn THEN switch_fn(nb.distances[k], cutoff, Item(switch_width)) ELSE [num |-> 1, den |-> 1]]
      lj == [k \in DOMAIN nb.pairs |-> LJTerm(parameters.rows, nb.pairs[k], nb.distances[k] * nb.distances[k])]
      args == DispersionArguments(switch_width, Some(cutoff))
  IN IF parameters.status # "ok" THEN {[status |-> parameters.status]}
     ELSE UNION {{IF correction.status # "ok" THEN [status |-> correction.status]
                  ELSE LET pair_scales == [k \in DOMAIN nb.pairs |-> ps.pair_scales[to_upper_tri_idx(nb.pairs[k][0], nb.pairs[k][1], Size(parameters.rows))]]
                       IN [status |-> "ok", pairs |-> nb.pairs, distances |-> nb.distances, switch_fn |-> switch, pair_scales |-> pair_scales,
                           energy |-> [pair_sum |-> PairSum(switch, pair_scales, lj), correction |-> correction]]
                  : correction \in compute_dispersion_correction(system, potential, args.cutoff, args.switch_width, volume)}
                 : ps \in compute_pair_scales(system, potential)}

\* _compute_lj_energy_periodic(system, conformer, box_vectors, potential)
LJPeriodic(system, conformer, volume, potential) ==
  \E r \in compute_lj_energy_periodic(system, conformer, volume, potential) :
    /\ last' = [op |-> "_compute_lj_energy_periodic", system |-> system, conformer |-> conformer, volume |-> volume, potential |-> potential, result |-> r]
    /\ UNCHANGED <<registry, imported>>

\* _compute_dispersion_correction(system, potential, cutoff, switch_width, volume)
DispersionCorrection(system, potential, cutoff, switch_width, volume) ==
  \E r \in compute_dispersion_correction(system, potential, cutoff, switch_width, volume) :
    /\ last' = [op |-> "_compute_dispersion_correction", system |-> system, potential |-> potential, cutoff |-> cutoff, switch_width |-> switch_width, volume |-> volume, result |-> r]
    /\ UNCHANGED <<registry, imported>>

\* the conformers of n particles with the first particle at the origin
PeriodicConformers(n) == {c \in Conformers(n) : c[0][0] = 0}

\* the systems small enough to have a conformer
PeriodicSystems == {system \in PairScaleSystems : SystemParticles(system) <= Cardinality(Positions)}

\* the cutoffs and switch widths of a potential: the switch distance is
\* cutoff - switch_width, at least 1
CutoffsAndWidths == {<<c, None>> : c \in 2..MaxCutoff} \cup {<<q[1], Some(q[2])>> : q \in {r \in (2..MaxCutoff) \X (1..MaxCutoff) : r[2] < r[1]}}

\* the cutoff and the switch distance a caller passes to the correction; either
\* may be None
CutoffsAndDistances == {<<None, None>>} \cup {<<Some(c), None>> : c \in 2..MaxCutoff} \cup {<<None, Some(c)>> : c \in 1..MaxCutoff} \cup {<<Some(q[1]), Some(q[2])>> : q \in {r \in (2..MaxCutoff) \X (1..MaxCutoff) : r[2] < r[1]}}

LJPeriodicNext ==
  \/ (last = Idle /\ \E system \in PeriodicSystems, cw \in CutoffsAndWidths : \E conformer \in PeriodicConformers(SystemParticles(system)) :
        LJPeriodic(system, conformer, BoxVolume, PeriodicPotential("vdW", LJ_POTENTIAL, cw[1], cw[2])))
  \/ (last = Idle /\ \E system \in PairScaleSystems, cd \in CutoffsAndDistances :
        DispersionCorrection(system, PeriodicPotential("vdW", LJ_POTENTIAL, MaxCutoff, None), cd[1], cd[2], BoxVolume))
  \/ Return

SpecLJPeriodic == BroadcastInit /\ [][LJPeriodicNext]_vars

----------------------------------------------------------------------------
(* Properties of the periodic LJ kernel *)

\* the potential of the last call has a switch_width attribute
HasSwitchWidth == \E k \in DOMAIN last.potential.attribute_cols : last.potential.attribute_cols[k] = "switch_width"

\* the cutoff attribute of the potential of the last call
CutoffOf == last.potential.attributes[CHOOSE k \in DOMAIN last.potential.attribute_cols : last.potential.attribute_cols[k] = "cutoff"]

\* the switch distance of the potential of the last call: cutoff - switch_width
SwitchDistanceOf == CutoffOf - last.potential.attributes[CHOOSE k \in DOMAIN last.potential.attribute_cols : last.potential.attribute_cols[k] = "switch_width"]

\* C11: for a vdW potential without a switch_width attribute the periodic LJ
\* kernel completes normally, the switch factor of every neighbour pair is 1,
\* and it returns the pair sum plus the dispersion correction: the missing
\* attribute is not an error.
C11_NoSwitchWidth ==
  (last.op = "_compute_lj_energy_periodic" /\ ~HasSwitchWidth) =>
    /\ last.result.status = "ok"
    /\ \A k \in DOMAIN last.result.switch_fn : last.result.switch_fn[k].num = last.result.switch_fn[k].den
    /\ last.result.energy.pair_sum.num = 0
    /\ last.result.energy.correction.status = "ok"

\* C12: the dispersion correction added by the periodic LJ kernel is
\* 8 pi N^2 / V (term1 / (9 rc^9) - term2 / (3 rc^3) + term3) / n_interactions
\* with rc the cutoff attribute of the potential in both denominators, and
\* term3 the integral from the switch distance cutoff - switch_width up to the
\* cutoff: neither is used in the other's place.
C12_TailCorrection ==
  (last.op = "_compute_lj_energy_periodic" /\ HasSwitchWidth /\ last.result.status = "ok") =>
    LET correction == last.result.energy.correction
        n == SystemParticles(last.system)
    IN /\ correction.n_particles = n
       /\ correction.volume = last.volume
       /\ correction.n_interactions = (n * (n + 1)) \div 2
       /\ correction.cutoff9 = 9 * CutoffOf ^ 9
       /\ correction.cutoff3 = 3 * CutoffOf ^ 3
       /\ \A k \in DOMAIN correction.terms[3] :
            /\ correction.terms[3][k].upper.r = CutoffOf
            /\ correction.terms[3][k].upper.rs = SwitchDistanceOf
            /\ correction.terms[3][k].upper.rc = CutoffOf
            /\ correction.terms[3][k].lower.r = SwitchDistanceOf
            /\ correction.terms[3][k].lower.rs = SwitchDistanceOf
            /\ correction.terms[3][k].lower.rc = CutoffOf

----------------------------------------------------------------------------
(* The periodic Coulomb kernel, for particles in a line, one unit apart.  The *)
(* direct and the reciprocal energy come                                      *)
(* from the PME operators of NNPOps, which the kernel calls with the          *)
(* exclusions of _compute_pme_exclusions and the grid of _compute_pme_grid;   *)
(* here they are whatever the operators return, in units of k_e / CoulUnit.   *)

\* the energies a PME operator may return
PmeEnergies == {-3, 0, 5}

\* an exclusion energy that leaves out the scale of each exclusion
energy_exclusion_unscaled(conformer, charges, exclusion_idxs, exclusion_scales) == Sum([e \in DOMAIN exclusion_idxs |-> charges[exclusion_idxs[e][0]][0] * charges[exclusion_idxs[e][1]][0] * (CoulUnit \div ISqrt(DistanceSqr(conformer, exclusion_idxs[e])))])

\* (_COULOMB_PRE_FACTOR * exclusion_scales * charges[i] * charges[j] / exclusion_distances).sum(-1)
energy_exclusion(conformer, charges, exclusion_idxs, exclusion_scales) == Sum([e \in DOMAIN exclusion_idxs |-> exclusion_scales[e] * charges[exclusion_idxs[e][0]][0] * charges[exclusion_idxs[e][1]][0] * (CoulUnit \div ISqrt(DistanceSqr(conformer, exclusion_idxs[e])))])

\* _compute_coulomb_energy_periodic(system, conformer, box_vectors, potential),
\* the PME operators returning energy_direct and energy_recip
compute_coulomb_energy_periodic(system, conformer, potential, energy_direct, energy_recip) ==
  LET charges == broadcast_parameters(system, potential)
      exclusions == broadcast_exclusions(system, potential)
      exclusion == energy_exclusion(conformer, charges.rows, exclusions.idxs, exclusions.scales)
  IN IF charges.status # "ok" THEN [status |-> charges.status]
     ELSE [status |-> "ok", charges |-> charges.rows, exclusion_idxs |-> exclusions.idxs, exclusion_scales |-> exclusions.scales, energy |-> energy_direct + energy_recip + exclusion]

\* _compute_coulomb_energy_periodic(system, conformer, box_vectors, potential)
CoulombPeriodic(system, conformer, potential, energy_direct, energy_recip) ==
  /\ last' = [op |-> "_compute_coulomb_energy_periodic", system |-> system, conformer |-> conformer, potential |-> potential, energy_direct |-> energy_direct, energy_recip |-> energy_recip,
              result |-> compute_coulomb_energy_periodic(system, conformer, potential, energy_direct, energy_recip)]
  /\ UNCHANGED <<registry, imported>>

CoulombPeriodicNext ==
  \/ (last = Idle /\ \E system \in PairScaleSystems, energy_direct \in PmeEnergies, energy_recip \in PmeEnergies : \E conformer \in {LineConformer(SystemParticles(system))[0]} :
        CoulombPeriodic(system, conformer, PeriodicPotential("Electrostatics", COULOMB_POTENTIAL, MaxCutoff, None), energy_direct, energy_recip))
  \/ Return

SpecCoulombPeriodic == BroadcastInit /\ [][CoulombPeriodicNext]_vars

----------------------------------------------------------------------------
(* Properties of the periodic Coulomb kernel *)

\* the exclusions of the system of the last call: exclusion e of copy c of topology t
SystemExclusions == {x \in (DOMAIN last.system.topologies) \X (0..(MaxCopies - 1)) \X (0..(MaxExclusions - 1)) : x[2] < last.system.n_copies[x[1]] /\ x[3] \in DOMAIN MapOf(x[1]).exclusions}

\* scale * q_i * q_j / r_ij of an exclusion of the system, in units of k_e / CoulUnit
FullCoulombOf(x) ==
  LET map == MapOf(x[1])
      q == MatMul(map.assignment_matrix, last.potential.parameters)
      i == map.exclusions[x[3]][0]
      j == map.exclusions[x[3]][1]
      r == last.conformer[i + SystemOffset(x[1], x[2])][0] - last.conformer[j + SystemOffset(x[1], x[2])][0]
  IN last.potential.attributes[map.exclusion_scale_idxs[x[3]]] * q[i][0] * q[j][0] * (CoulUnit \div (IF r < 0 THEN 0 - r ELSE r))

\* the sum of FullCoulombOf over the exclusions of the system
ExclusionCoulomb == SumOver(SystemExclusions, [x \in SystemExclusions |-> FullCoulombOf(x)])

\* what the returned energy holds besides the direct and the reciprocal energy
ExclusionContribution == last.result.energy - last.energy_direct - last.energy_recip

\* C13 as stated: every broadcast exclusion (i, j) with scale s contributes
\* - s k_e q_i q_j / r_ij to the energy the periodic Coulomb kernel returns,
\* and no other pair contributes.
C13_ExclusionsSubtracted == (last.op = "_compute_coulomb_energy_periodic" /\ last.result.status = "ok") => ExclusionContribution = 0 - ExclusionCoulomb

\* C13, amended: every broadcast exclusion (i, j) with scale s contributes
\* + s k_e q_i q_j / r_ij to the energy the periodic Coulomb kernel returns (the
\* term is added), and no other pair contributes.
C13_ExclusionsAdded == (last.op = "_compute_coulomb_energy_periodic" /\ last.result.status = "ok") => ExclusionContribution = ExclusionCoulomb

\* the kernel returned the energy of a system of two topologies, the second in
\* two copies, with exclusions of scale 2 between unlike charges
C13_Witness ==
  /\ last.op = "_compute_coulomb_energy_periodic"
  /\ last.result.status = "ok"
  /\ Size(last.system.topologies) = 2
  /\ last.system.n_copies[1] = 2
  /\ Size(last.result.exclusion_idxs) >= 2
  /\ \E e \in DOMAIN last.result.exclusion_scales : last.result.exclusion_scales[e] = 2
  /\ ExclusionCoulomb < 0
  /\ ExclusionContribution < 0

----------------------------------------------------------------------------
(* Properties of the interaction counts of the dispersion correction *)

\* the particles of the system of the last call that are assigned to parameter
\* type t alone: in each topology the rows that pick t, times its copies
ParticlesOfType(t) ==
  SumOver(DOMAIN last.system.topologies, [k \in DOMAIN last.system.topologies |-> last.system.n_copies[k] * Cardinality({p \in DOMAIN last.system.topologies[k].parameters["vdW"].assignment_matrix : last.system.topologies[k].parameters["vdW"].assignment_matrix[p][t] = 1})])

\* every particle of the system of the last call has exactly one parameter type
OneHotRows ==
  \A k \in DOMAIN last.system.topologies :
    LET a == last.system.topologies[k].parameters["vdW"].assignment_matrix
    IN \A p \in DOMAIN a : \E t \in DOMAIN a[p] : a[p][t] = 1 /\ \A u \in DOMAIN a[p] : u # t => a[p][u] = 0

\* C14: with one type per particle and per-type counts n_t that add up to the
\* N particles of the system, _compute_dispersion_correction weights the
\* same-type interactions by n_t (n_t + 1) / 2 and the interactions of two
\* types s < t by n_s n_t, and these counts add up to the normaliser
\* N (N + 1) / 2.
C14_InteractionCounts ==
  (last.op = "_compute_dispersion_correction" /\ last.result.status = "ok" /\ OneHotRows
   /\ SumOver(DOMAIN last.potential.parameters, [t \in DOMAIN last.potential.parameters |-> ParticlesOfType(t)]) = SystemParticles(last.system)) =>
    LET types == DOMAIN last.potential.parameters
        N == SystemParticles(last.system)
    IN /\ \A t \in types : 2 * last.result.n_ii_interactions[t] = ParticlesOfType(t) * (ParticlesOfType(t) + 1)
       /\ Size(last.result.n_ij_interactions) * 2 = Cardinality(types) * (Cardinality(types) - 1)
       /\ \A u, t \in types : u < t => last.result.n_ij_interactions[CanonicalIdx(u, t, Cardinality(types))] = ParticlesOfType(u) * ParticlesOfType(t)
       /\ 2 * last.result.n_interactions = N * (N + 1)
       /\ Sum(last.result.n_ii_interactions) + Sum(last.result.n_ij_interactions) = last.result.n_interactions

\* the correction was computed for a system of two topologies with several
\* particles of each of the two types
C14_Witness ==
  /\ last.op = "_compute_dispersion_correction"
  /\ last.result.status = "ok"
  /\ Size(last.system.topologies) = 2
  /\ last.system.n_copies[0] = 2
  /\ ParticlesOfType(0) >= 2
  /\ ParticlesOfType(1) >= 2
  /\ ParticlesOfType(0) # ParticlesOfType(1)
  /\ last.result.n_ij_interactions[0] >= 4

====
